---------------------------- MODULE Spec2Model ----------------------------
(***************************************************************************)
(* A model of color_palette.py: the Color value type, the one- and         *)
(* two-dimensional space explorers (explore_range, explore_2d) and the     *)
(* palette generator (get_color, get_palette).                             *)
(*                                                                         *)
(* Python floats are modelled as exact rationals <<n, d>> (d > 0, lowest   *)
(* terms), Python tuples as TLA+ tuples, Python strings as sequences of    *)
(* one-character strings, and a call's result as a record                  *)
(* [exc, val]: exc = "none" when the call returned val, otherwise the name *)
(* of the exception that it raised.                                        *)
(***************************************************************************)
EXTENDS Integers, Sequences, FiniteSets, TLC

VARIABLES
    pc,       \* "call": the request is pending; "done": it has been executed
    input,    \* the request: [fn |-> name of the function, args |-> its arguments]
    color,    \* the Color object the request works on: <<_r, _g, _b>>
    outcome,  \* "pending", "returned", or the exception the call raised
    ret,      \* the value the call returned (<<>> when it raised)
    hsv,      \* get_color: the HSV triple handed to set_hsv (<<>> if none was)
    cell      \* explore_2d: the integer grid coordinates <<x, y>> (<<>> if none)

vars == <<pc, input, color, outcome, ret, hsv, cell>>

---------------------------------------------------------------------------
(* Bounds of the model. *)

MaxStep   == 17   \* explore_range is called with step indices up to MaxStep
MaxGrid   == 24   \* explore_2d is called with step indices up to MaxGrid
MaxIndex  == 47   \* get_color is called with palette indices up to MaxIndex
MaxLength == 7    \* get_palette is called with lengths up to MaxLength
MaxNeg    == 2    \* indices and lengths go down to -MaxNeg
MaxHexLen == 7    \* hex strings have at most MaxHexLen characters

---------------------------------------------------------------------------
(* Exact rational arithmetic standing for Python's float arithmetic. *)

Abs(n) == IF n < 0 THEN -n ELSE n

RECURSIVE GCD(_, _)
GCD(a, b) == IF b = 0 THEN a ELSE GCD(b, a % b)

Q(n, d) ==
    LET g == GCD(Abs(n), Abs(d))
        s == IF d < 0 THEN -1 ELSE 1
    IN  <<(s * n) \div g, (s * d) \div g>>

QInt(n)    == <<n, 1>>
QAdd(a, b) == Q(a[1] * b[2] + b[1] * a[2], a[2] * b[2])
QSub(a, b) == Q(a[1] * b[2] - b[1] * a[2], a[2] * b[2])
QMul(a, b) == Q(a[1] * b[1], a[2] * b[2])
QDiv(a, b) == Q(a[1] * b[2], a[2] * b[1])
QLt(a, b)  == a[1] * b[2] < b[1] * a[2]
QLe(a, b)  == a[1] * b[2] <= b[1] * a[2]
QFloor(a)  == a[1] \div a[2]
QTrunc(a)  == IF a[1] >= 0 THEN a[1] \div a[2] ELSE -((-a[1]) \div a[2])
\* Python's a % m for a positive m: the result has the sign of m.
QMod(a, m) == QSub(a, QMul(m, QInt(QFloor(QDiv(a, m)))))
\* Python 2's round(): to the nearest integer, halves away from zero.
QRound(a)  == IF a[1] >= 0 THEN (2 * a[1] + a[2]) \div (2 * a[2])
                           ELSE -((2 * (-a[1]) + a[2]) \div (2 * a[2]))
QMax3(a, b, c) ==
    LET m == IF QLt(a, b) THEN b ELSE a IN IF QLt(m, c) THEN c ELSE m
QMin3(a, b, c) ==
    LET m == IF QLt(b, a) THEN b ELSE a IN IF QLt(c, m) THEN c ELSE m

\* A float, as opposed to a tuple of another length standing where one is expected.
IsNumber(v) == Len(v) = 2

Returned(v) == [exc |-> "none", val |-> v]
Raised(e)   == [exc |-> e, val |-> <<>>]

---------------------------------------------------------------------------
(* Module constants. *)

HUE_STEPS      == 6
HUE_STEP       == Q(1, HUE_STEPS)
MIN_VALUE      == Q(1, 2)
MAX_VALUE      == Q(9, 10)
MIN_SATURATION == Q(1, 5)
MAX_SATURATION == Q(1, 1)

---------------------------------------------------------------------------
(* class Color: the canonical state is the byte triple <<_r, _g, _b>>. *)

\* set_rgb_bytes: the three components are stored as given.
set_rgb_bytes(rgb_bytes) == <<rgb_bytes[1], rgb_bytes[2], rgb_bytes[3]>>

get_rgb_bytes(c) == <<c[1], c[2], c[3]>>

get_rgb_float(c) == <<Q(c[1], 255), Q(c[2], 255), Q(c[3], 255)>>

\* (maxc - c) / (maxc - minc), for one channel c.
channel_share(maxc, c, d) == QDiv(QSub(maxc, c), d)

\* The hue before scaling: which channel is the largest decides the sextant.
hue_sextant(r, g, b, maxc, d) ==
    IF r = maxc
    THEN QSub(channel_share(maxc, b, d), channel_share(maxc, g, d))
    ELSE IF g = maxc
    THEN QAdd(QInt(2), QSub(channel_share(maxc, r, d), channel_share(maxc, b, d)))
    ELSE QAdd(QInt(4), QSub(channel_share(maxc, g, d), channel_share(maxc, r, d)))

hsv_of_extremes(r, g, b, maxc, minc) ==
    IF minc = maxc THEN <<QInt(0), QInt(0), maxc>>
    ELSE <<QMod(QDiv(hue_sextant(r, g, b, maxc, QSub(maxc, minc)), QInt(6)), QInt(1)),
           QDiv(QSub(maxc, minc), maxc),
           maxc>>

\* colorsys.rgb_to_hsv on three floats.
rgb_to_hsv(r, g, b) == hsv_of_extremes(r, g, b, QMax3(r, g, b), QMin3(r, g, b))

get_hsv(c) == rgb_to_hsv(Q(c[1], 255), Q(c[2], 255), Q(c[3], 255))

hsv_sector(k, v, p, q, t) ==
    CASE k = 0 -> <<v, t, p>>
      [] k = 1 -> <<q, v, p>>
      [] k = 2 -> <<p, v, t>>
      [] k = 3 -> <<p, q, v>>
      [] k = 4 -> <<t, p, v>>
      [] OTHER -> <<v, p, q>>

\* i = int(h*6.0), f = h*6.0 - i; p, q, t are v scaled by 1 - s, 1 - s*f and
\* 1 - s*(1 - f).
hsv_mix(s, v, i, f) ==
    hsv_sector(i % 6, v,
               QMul(v, QSub(QInt(1), s)),
               QMul(v, QSub(QInt(1), QMul(s, f))),
               QMul(v, QSub(QInt(1), QMul(s, QSub(QInt(1), f)))))

\* colorsys.hsv_to_rgb: h and s are floats; v is whatever the caller passed.
\* With s = 0.0 it returns (v, v, v) untouched; otherwise it multiplies v by a
\* float, which raises TypeError when v is a tuple.
hsv_to_rgb(h, s, v) ==
    IF s = QInt(0) THEN Returned(<<v, v, v>>)
    ELSE IF ~IsNumber(v) THEN Raised("TypeError")
    ELSE Returned(hsv_mix(s, v, QTrunc(QMul(h, QInt(6))),
                          QSub(QMul(h, QInt(6)), QInt(QTrunc(QMul(h, QInt(6)))))))

clamp_byte(n) == IF n < 0 THEN 0 ELSE IF n > 255 THEN 255 ELSE n

\* One component of set_rgb_float: max(0, min(255, int(round(x * 255)))).
float_to_byte(x) == clamp_byte(QRound(QMul(x, QInt(255))))

\* set_rgb_float: a tuple times 255 is a longer tuple, and round() of it raises
\* TypeError.
set_rgb_float(rgb_float) ==
    IF \E k \in 1..3 : ~IsNumber(rgb_float[k]) THEN Raised("TypeError")
    ELSE Returned(<<float_to_byte(rgb_float[1]), float_to_byte(rgb_float[2]),
                    float_to_byte(rgb_float[3])>>)

set_rgb_float_result(rgb) == IF rgb.exc /= "none" THEN rgb ELSE set_rgb_float(rgb.val)

\* set_hsv: set_rgb_float(colorsys.hsv_to_rgb(h, s, v)).
set_hsv(hsv_float) ==
    set_rgb_float_result(hsv_to_rgb(hsv_float[1], hsv_float[2], hsv_float[3]))

\* The value of one character as a base-16 digit, -1 if it is none.
HexDigitValue(ch) ==
    CASE ch = "0" -> 0 [] ch = "1" -> 1 [] ch = "2" -> 2 [] ch = "3" -> 3
      [] ch = "4" -> 4 [] ch = "5" -> 5 [] ch = "6" -> 6 [] ch = "7" -> 7
      [] ch = "8" -> 8 [] ch = "9" -> 9
      [] ch \in {"a", "A"} -> 10 [] ch \in {"b", "B"} -> 11
      [] ch \in {"c", "C"} -> 12 [] ch \in {"d", "D"} -> 13
      [] ch \in {"e", "E"} -> 14 [] ch \in {"f", "F"} -> 15
      [] OTHER -> -1

IsSpace(ch) == ch \in {" ", "\t", "\n"}

\* Python's s[a:b] for 0 <= a <= b, with s indexed from 0: the slice is clipped
\* to the string.
Slice(s, a, b) ==
    IF a >= Len(s) THEN <<>> ELSE SubSeq(s, a + 1, IF b < Len(s) THEN b ELSE Len(s))

RECURSIVE LStrip(_)
LStrip(s) == IF s /= <<>> /\ IsSpace(Head(s)) THEN LStrip(Tail(s)) ELSE s

RECURSIVE RStrip(_)
RStrip(s) ==
    IF s /= <<>> /\ IsSpace(s[Len(s)]) THEN RStrip(SubSeq(s, 1, Len(s) - 1)) ELSE s

RECURSIVE DigitsValue(_, _)
DigitsValue(s, acc) ==
    IF s = <<>> THEN acc ELSE DigitsValue(Tail(s), 16 * acc + HexDigitValue(Head(s)))

int16_digits(neg, body) ==
    IF body = <<>> \/ \E k \in 1..Len(body) : HexDigitValue(body[k]) < 0
    THEN Raised("ValueError")
    ELSE Returned(IF neg THEN -DigitsValue(body, 0) ELSE DigitsValue(body, 0))

int16_signed(t) ==
    IF t /= <<>> /\ Head(t) \in {"+", "-"}
    THEN int16_digits(Head(t) = "-", Tail(t))
    ELSE int16_digits(FALSE, t)

\* Python 2's int(s, 16) on a slice of at most two characters: surrounding
\* whitespace is skipped, one sign is accepted, and what is left must be one or
\* more hex digits (a "0x" prefix needs a digit after it, so it never fits).
int16(s) == int16_signed(RStrip(LStrip(s)))

\* The three assignments of set_html_hex in order: the first int() that raises
\* ends the call.
hex_fields(r, g, b) ==
    IF r.exc /= "none" THEN r
    ELSE IF g.exc /= "none" THEN g
    ELSE IF b.exc /= "none" THEN b
    ELSE Returned(<<r.val, g.val, b.val>>)

hex_digits(s) ==
    hex_fields(int16(Slice(s, 0, 2)), int16(Slice(s, 2, 4)), int16(Slice(s, 4, 6)))

\* set_html_hex: h[0] raises IndexError on the empty string; a leading "#" is
\* dropped.
set_html_hex(h) ==
    IF h = <<>> THEN Raised("IndexError")
    ELSE hex_digits(IF h[1] = "#" THEN Tail(h) ELSE h)

---------------------------------------------------------------------------
(* explore_range *)

RECURSIVE Pow2(_)
Pow2(n) == IF n <= 0 THEN 1 ELSE 2 * Pow2(n - 1)

\* level = math.ceil(math.log(i + 1, 2)) for i + 1 >= 1: the least L with
\* 2^L >= i + 1.
level(i) == CHOOSE L \in 0..(i + 1) : Pow2(L) >= i + 1 /\ (L = 0 \/ Pow2(L - 1) < i + 1)

\* odd_i with the factor 2 dropped: numerators of every parity.
odd_i_dense(level_i) == 1 + level_i
\* odd_i = 1 + 2*level_i
odd_i(level_i) == 1 + 2 * level_i

\* denominator = 2^level, prev_denominator = 2^(level - 1),
\* level_i = i - prev_denominator, position = 1.0 * odd_i / denominator.
position_at(i, lvl) == Q(odd_i(i - Pow2(lvl - 1)), Pow2(lvl))

position(i) == position_at(i, level(i))

\* mapped_result without the modulo: the position is not wrapped into the range.
mapped_result_unwrapped(mapped_start, pos, map_range) ==
    QAdd(mapped_start, QMul(pos, map_range))
\* mapped_result = (mapped_start + position * map_range) % map_range
mapped_result(mapped_start, pos, map_range) ==
    QMod(QAdd(mapped_start, QMul(pos, map_range)), map_range)

\* explore_range(min_val, max_val, start, i), for min_val < max_val, with
\* map_range = max_val - min_val and mapped_start = start - min_val.
\* math.log raises ValueError when i + 1 <= 0.
explore_range(min_val, max_val, start, i) ==
    IF i = 0 THEN Returned(start)
    ELSE IF i + 1 <= 0 THEN Raised("ValueError")
    ELSE Returned(QAdd(mapped_result(QSub(start, min_val), position(i),
                                     QSub(max_val, min_val)),
                       min_val))

---------------------------------------------------------------------------
(* explore_2d *)

\* math.floor(math.sqrt(i)) for i >= 0.
isqrt(i) == CHOOSE k \in 0..i : k * k <= i /\ i < (k + 1) * (k + 1)

\* y counted from last_dimension instead of 2 * last_dimension.
down_edge_y_short(last_dimension, i_level) == last_dimension - i_level
\* y = 2 * last_dimension - i_level
down_edge_y(last_dimension, i_level) == 2 * last_dimension - i_level

\* The branch on i_level: along the new row (move in x), or down the new column.
ring_cell(last_dimension, i_level) ==
    IF i_level < last_dimension
    THEN <<i_level, last_dimension>>
    ELSE <<last_dimension, down_edge_y(last_dimension, i_level)>>

\* last_square = last_dimension^2, i_level = i - last_square.
cell_of(i, last_dimension) == ring_cell(last_dimension, i - last_dimension * last_dimension)

\* The integer grid coordinates (x, y) of step i >= 0:
\* dimension = floor(sqrt(i)) + 1, last_dimension = dimension - 1.
grid_cell(i) == cell_of(i, (isqrt(i) + 1) - 1)

\* The returned pair: the x axis run through explore_range, the y axis the raw
\* tuple (min_y, max_y, start_y, y).
explore_2d_pair(ex, raw_y) ==
    IF ex.exc /= "none" THEN ex ELSE Returned(<<ex.val, raw_y>>)

explore_2d_at(min_x, max_x, min_y, max_y, start_x, start_y, xy) ==
    explore_2d_pair(explore_range(min_x, max_x, start_x, xy[1]),
                    <<min_y, max_y, start_y, xy[2]>>)

\* explore_2d: math.sqrt raises ValueError for i < 0.  The value returned is
\* (explore_range(min_x, max_x, start_x, x), (min_y, max_y, start_y, y)): its
\* second component is the tuple of explore_range's arguments, not a call.
explore_2d(min_x, max_x, min_y, max_y, start_x, start_y, i) ==
    IF i < 0 THEN Raised("ValueError")
    ELSE explore_2d_at(min_x, max_x, min_y, max_y, start_x, start_y, grid_cell(i))

---------------------------------------------------------------------------
(* get_color, get_palette *)

\* hstep = i % HUE_STEPS
hstep(i) == i % HUE_STEPS

\* svstep taken as a remainder instead of a quotient.
svstep_cyclic(i) == i % HUE_STEPS
\* svstep = i / HUE_STEPS (Python 2: floor division of two ints)
svstep(i) == i \div HUE_STEPS

\* hstep * HUE_STEP + explore_range(0, HUE_STEP, 0, svstep): what line 187 adds
\* to the seed's hue before the final % 1.0 (i >= 0, so explore_range returns).
hue_offset(i) ==
    QAdd(QMul(QInt(hstep(i)), HUE_STEP),
         explore_range(QInt(0), HUE_STEP, QInt(0), svstep(i)).val)

Frame(exc, val, triple) == [exc |-> exc, val |-> val, hsv |-> triple]

\* result.set_hsv((h, s, v))
frame_set_hsv(result, triple) == Frame(result.exc, result.val, triple)

frame_compose(triple) == frame_set_hsv(set_hsv(triple), triple)

\* (s, v) = explore_2d(...): the pair is unpacked into s and v.
frame_unpack(h, sv) ==
    IF sv.exc /= "none" THEN Frame(sv.exc, <<>>, <<>>)
    ELSE frame_compose(<<h, sv.val[1], sv.val[2]>>)

\* Lines 187-188, given the seed's HSV triple; explore_range's exception, if
\* any, leaves get_color before h is assigned.
frame_explore(hsv0, i, er) ==
    IF er.exc /= "none" THEN Frame(er.exc, <<>>, <<>>)
    ELSE frame_unpack(QMod(QAdd(hsv0[1], hue_offset(i)), QInt(1)),
                      explore_2d(MIN_SATURATION, MAX_SATURATION, MIN_VALUE, MAX_VALUE,
                                 hsv0[2], hsv0[3], svstep(i)))

\* get_color(start_color, i) as [exc, val, hsv]: hsv is the triple handed to
\* set_hsv, <<>> when an exception came before it was composed.
get_color_frame(start_color, i) ==
    frame_explore(get_hsv(start_color), i,
                  explore_range(QInt(0), HUE_STEP, QInt(0), svstep(i)))

frame_result(f) == [exc |-> f.exc, val |-> f.val]

get_color(start_color, i) == frame_result(get_color_frame(start_color, i))

first_raised(each, bad) == Raised(each[CHOOSE k \in bad : \A m \in bad : k <= m].exc)

\* The list comprehension: the first get_color that raises ends the call.
comprehension(each) ==
    IF \E k \in DOMAIN each : each[k].exc /= "none"
    THEN first_raised(each, {k \in DOMAIN each : each[k].exc /= "none"})
    ELSE Returned([k \in DOMAIN each |-> each[k].val])

\* get_palette: [get_color(start_color, i) for i in range(length)]; range() of
\* a length <= 0 is empty.
get_palette(start_color, length) ==
    comprehension([k \in 1..(IF length < 0 THEN 0 ELSE length) |->
                     get_color(start_color, k - 1)])

---------------------------------------------------------------------------
(* The inputs. *)

\* Seed colours, as RGB byte triples: #EACE8C (the demo's base colour), black,
\* pure red (saturation = MAX_SATURATION, value above MAX_VALUE), mid grey
\* (saturation 0), #336699 (saturation and value inside the bounds), white.
SeedColors ==
    { <<234, 206, 140>>, <<0, 0, 0>>, <<255, 0, 0>>, <<128, 128, 128>>,
      <<51, 102, 153>>, <<255, 255, 255>> }

\* explore_range's bounds and start as get_color's two lines pass them: the hue
\* interval from start 0, the saturation interval from a seed's saturation, the
\* value interval from a seed's value.
RangeStarts ==
    {<<QInt(0), HUE_STEP, QInt(0)>>}
    \cup {<<MIN_SATURATION, MAX_SATURATION, get_hsv(c)[2]>> : c \in SeedColors}
    \cup {<<MIN_VALUE, MAX_VALUE, get_hsv(c)[3]>> : c \in SeedColors}

\* Characters of hex strings: the prefix, an upper- and a lower-case digit,
\* a sign and a blank ("#" inside the digits stands for any non-hex character).
Alphabet == {"#", "F", "a", "+", " "}

HexStrings == UNION {[1..n -> Alphabet] : n \in 0..MaxHexLen}

ExploreRangeArgs ==
    {<<b[1], b[2], b[3], i>> : b \in RangeStarts, i \in (-MaxNeg)..MaxStep}

Explore2dArgs ==
    {<<MIN_SATURATION, MAX_SATURATION, MIN_VALUE, MAX_VALUE,
       get_hsv(c)[2], get_hsv(c)[3], i>> : c \in SeedColors, i \in (-MaxNeg)..MaxGrid}

Requests ==
    {[fn |-> "explore_range", args |-> a] : a \in ExploreRangeArgs}
    \cup {[fn |-> "explore_2d", args |-> a] : a \in Explore2dArgs}
    \cup {[fn |-> "get_color", args |-> <<i>>] : i \in (-MaxNeg)..MaxIndex}
    \cup {[fn |-> "get_palette", args |-> <<n>>] : n \in (-MaxNeg)..MaxLength}
    \cup {[fn |-> "Color", args |-> <<h>>] : h \in HexStrings}

---------------------------------------------------------------------------
(* The state machine: one request, executed once. *)

\* The Color the request works on was built by Color(rgb_bytes) (__init__ with
\* a non-string argument calls set_rgb_bytes).  A "Color" request is the
\* construction itself, from a hex string: color holds the default triple of
\* the fields until set_html_hex has assigned them.
Init ==
    /\ pc = "call"
    /\ input \in Requests
    /\ color \in {set_rgb_bytes(c) :
                    c \in IF input.fn \in {"get_color", "get_palette"}
                          THEN SeedColors ELSE {<<0, 0, 0>>}}
    /\ outcome = "pending"
    /\ ret = <<>>
    /\ hsv = <<>>
    /\ cell = <<>>

Finish(r) ==
    /\ pc' = "done"
    /\ outcome' = IF r.exc = "none" THEN "returned" ELSE r.exc
    /\ ret' = r.val

\* get_color: the call's result and the triple it handed to set_hsv.
FinishFrame(f) ==
    /\ Finish(frame_result(f))
    /\ hsv' = f.hsv

\* A constructor that raised leaves no object: color keeps the default fields.
FinishConstruct(r) ==
    /\ Finish(r)
    /\ color' = IF r.exc = "none" THEN r.val ELSE color

CallExploreRange ==
    /\ pc = "call" /\ input.fn = "explore_range"
    /\ Finish(explore_range(input.args[1], input.args[2], input.args[3], input.args[4]))
    /\ UNCHANGED <<input, color, hsv, cell>>

CallExplore2d ==
    /\ pc = "call" /\ input.fn = "explore_2d"
    /\ Finish(explore_2d(input.args[1], input.args[2], input.args[3], input.args[4],
                         input.args[5], input.args[6], input.args[7]))
    /\ cell' = IF input.args[7] >= 0 THEN grid_cell(input.args[7]) ELSE <<>>
    /\ UNCHANGED <<input, color, hsv>>

CallGetColor ==
    /\ pc = "call" /\ input.fn = "get_color"
    /\ FinishFrame(get_color_frame(color, input.args[1]))
    /\ UNCHANGED <<input, color, cell>>

CallGetPalette ==
    /\ pc = "call" /\ input.fn = "get_palette"
    /\ Finish(get_palette(color, input.args[1]))
    /\ UNCHANGED <<input, color, hsv, cell>>

\* Color(h) with a string: __init__ calls set_html_hex(h).  The constructor
\* returns the new object, whose fields are the parsed triple.
NewColorFromHex ==
    /\ pc = "call" /\ input.fn = "Color"
    /\ FinishConstruct(set_html_hex(input.args[1]))
    /\ UNCHANGED <<input, hsv, cell>>

Next ==
    \/ CallExploreRange
    \/ CallExplore2d
    \/ CallGetColor
    \/ CallGetPalette
    \/ NewColorFromHex

Spec == Init /\ [][Next]_vars

---------------------------------------------------------------------------
(* Properties. *)

Done(fn) == pc = "done" /\ input.fn = fn

InHalfOpen(x, lo, hi) == QLe(lo, x) /\ QLt(x, hi)

\* C1: explore_range never repeats a position: for fixed bounds and a fixed
\* start, the value returned for step i differs from the value of every other
\* step j in 0..MaxStep (step 0 included).
C1_NoRepeat ==
    (Done("explore_range") /\ outcome = "returned")
    => \A j \in 0..MaxStep :
         j /= input.args[4]
         => explore_range(input.args[1], input.args[2], input.args[3], j).val /= ret

\* C1 witness: a step of the third level whose position wrapped around the end
\* of the interval (the result lies below the start).
C1_Witness ==
    /\ Done("explore_range") /\ outcome = "returned"
    /\ input.args[4] = 6
    /\ InHalfOpen(input.args[3], input.args[1], input.args[2])
    /\ QLt(ret, input.args[3])

Ring(k) == {c \in (0..k) \X (0..k) : c[1] = k \/ c[2] = k}

\* C3: the grid coordinates of explore_2d enumerate the rings without
\* repetition: the indices k^2 .. (k+1)^2 - 1 give exactly the cells of ring k,
\* and no other index in 0..MaxGrid gives the cell of the index called.
C3_RingEnumeration ==
    (Done("explore_2d") /\ input.args[7] >= 0)
    => /\ \A k \in 0..input.args[7] :
            (k * k <= input.args[7] /\ input.args[7] <= (k + 1) * (k + 1) - 1)
            => /\ cell \in Ring(k)
               /\ {grid_cell(j) : j \in (k * k)..((k + 1) * (k + 1) - 1)} = Ring(k)
       /\ \A j \in 0..MaxGrid : j /= input.args[7] => grid_cell(j) /= cell

\* C3 witness: an index on the descending edge of ring 3.
C3_Witness == Done("explore_2d") /\ input.args[7] = 14 /\ cell = <<3, 1>>

\* C4: explore_2d returns two real-valued points, the x and the y grid
\* coordinate each run through explore_range with its own axis' bounds and start.
C4_BothAxesTransformed ==
    (Done("explore_2d") /\ outcome = "returned")
    => /\ ret[1] = explore_range(input.args[1], input.args[2], input.args[5],
                                 cell[1]).val
       /\ IsNumber(ret[2])
       /\ ret[2] = explore_range(input.args[3], input.args[4], input.args[6],
                                 cell[2]).val

\* C5: get_color(seed, 0) completes and returns a colour equal to the seed.
C5_IndexZeroIdentity ==
    (Done("get_color") /\ input.args[1] = 0)
    => /\ outcome = "returned"
       /\ ret = get_rgb_bytes(color)

\* C6: for 0 <= i < 6 the HSV triple get_color composes has the seed's hue
\* shifted by i/6 (mod 1), the seed's saturation and the seed's value.
C6_FirstSixKeepSatVal ==
    (Done("get_color") /\ input.args[1] >= 0 /\ input.args[1] < 6)
    => /\ Len(hsv) = 3
       /\ hsv[1] = QMod(QAdd(get_hsv(color)[1], Q(input.args[1], 6)), QInt(1))
       /\ hsv[2] = get_hsv(color)[2]
       /\ IsNumber(hsv[3])
       /\ hsv[3] = get_hsv(color)[3]

\* C7: get_palette(seed, n), n >= 0, returns exactly n colours, the k-th being
\* get_color(seed, k), and for n >= 1 the first one equals the seed.
C7_PaletteIsGetColorSequence ==
    (Done("get_palette") /\ input.args[1] >= 0)
    => /\ outcome = "returned"
       /\ Len(ret) = input.args[1]
       /\ \A k \in 0..(input.args[1] - 1) :
            /\ get_color(color, k).exc = "none"
            /\ ret[k + 1] = get_color(color, k).val
       /\ input.args[1] >= 1 => ret[1] = get_rgb_bytes(color)

IsHexDigit(ch) ==
    ch \in {"0", "1", "2", "3", "4", "5", "6", "7", "8", "9", "a", "b", "c", "d",
            "e", "f", "A", "B", "C", "D", "E", "F"}

\* The strings matching ^#?[0-9A-Fa-f]{6}$.
MatchesHexPattern(h) ==
    \/ Len(h) = 6 /\ \A k \in 1..6 : IsHexDigit(h[k])
    \/ Len(h) = 7 /\ h[1] = "#" /\ \A k \in 2..7 : IsHexDigit(h[k])

\* C8: constructing a Color from a string that does not match
\* ^#?[0-9A-Fa-f]{6}$ fails, and no colour value is produced.
C8_MalformedHexRejected ==
    (Done("Color") /\ ~MatchesHexPattern(input.args[1]))
    => outcome /= "returned"

\* C9: a negative index passed to get_color and a negative length passed to
\* get_palette are rejected: neither call returns a result.
C9_NegativeRejected ==
    (\/ Done("get_color") /\ input.args[1] < 0
     \/ Done("get_palette") /\ input.args[1] < 0)
    => outcome /= "returned"

\* C10: the hue offset (i mod 6)/6 + explore_range(0, 1/6, 0, i div 6) of palette
\* index i >= 0 lies in the slot [(i mod 6)/6, (i mod 6 + 1)/6) and differs from
\* the offset of every other index j in 0..MaxIndex; so the hue get_color
\* composes for i is the composed hue of no other index.
C10_HueOffsetInjective ==
    (Done("get_color") /\ input.args[1] >= 0)
    => /\ InHalfOpen(hue_offset(input.args[1]),
                     Q(input.args[1] % 6, 6), Q((input.args[1] % 6) + 1, 6))
       /\ Len(hsv) = 3
       /\ hsv[1] = QMod(QAdd(get_hsv(color)[1], hue_offset(input.args[1])), QInt(1))
       /\ \A j \in 0..MaxIndex :
            j /= input.args[1]
            => /\ hue_offset(j) /= hue_offset(input.args[1])
               /\ QMod(QAdd(get_hsv(color)[1], hue_offset(j)), QInt(1)) /= hsv[1]

\* C10 witness: an index of the third refinement pass (i div 6 = 2), whose hue
\* was composed.
C10_Witness ==
    /\ Done("get_color") /\ input.args[1] = 13
    /\ Len(hsv) = 3
    /\ hsv[1] = QMod(QAdd(get_hsv(color)[1], Q(5, 24)), QInt(1))

===========================================================================
